---- MODULE Spec2Model ----
(***************************************************************************)
(* Model of the migration panel (src/src/locations/Page.tsx): a React      *)
(* component holding a list of migration records, a start action, a status *)
(* check, a repeating poll timer and a localStorage mirror of the list.    *)
(*                                                                         *)
(* One action is one task of the browser's event loop: an event handler or *)
(* a promise continuation runs to its next await, and the state updates it *)
(* makes are committed together.  Passive effects (useEffect) of a commit  *)
(* run in a later task, FlushEffects, and always before the next commit.   *)
(***************************************************************************)
EXTENDS Integers, Sequences, FiniteSets, TLC

VARIABLES
    phase,          \* "new" | "mounted" | "unmounted" | "crashed"
    migrations,     \* useState<Migration[]>            (Page.tsx:29)
    isStarting,     \* useState(false)                  (Page.tsx:31)
    isPolling,      \* useState(false)                  (Page.tsx:32)
    isLoading,      \* useState(true)                   (Page.tsx:33)
    storage,        \* localStorage[STORAGE_KEY]
    writable,       \* whether setItem succeeds in this session (else it throws)
    lastSave,       \* outcome of the latest setItem: "none" | "ok" | "failed"
    dirty,          \* deps changed by commits whose effects have not run yet
    timer,          \* the setInterval of the auto-poll effect and its closure
    starts,         \* startMigration calls in flight, by the await they are at
    storedMigrations, \* the value loadMigrationsFromStorage returned (Page.tsx:64)
    initActive,     \* activeMigrations of initializeMigrations (ids, in order)
    initIdx,        \* index in initActive of the init check being awaited
    reqs,           \* checkMigrationStatus calls in flight, a bag
    lastOp,         \* the step just taken and the notifications it emitted
    orphans,        \* intervals still armed after the cleanup of their effect run
    jobs,           \* the backend: the status it holds for each job id, or "none"
    early,          \* of reqs, the checks issued before their job finished
    notified        \* the job ids a terminal notification has been shown for

\* the backend, and what has been observed of the notifier
backend == <<jobs, early, notified>>

vars == <<phase, migrations, isStarting, isPolling, isLoading, storage, writable, lastSave,
          dirty, timer, starts, storedMigrations, initActive, initIdx, reqs, lastOp,
          orphans, jobs, early, notified>>

----------------------------------------------------------------------------
(* Bounds of the model *)

\* the start action is not clicked once the list holds this many records
MaxRecords == 2

\* timer-driven status checks in flight at once
MaxInFlight == 2

----------------------------------------------------------------------------
(* Migration records (Page.tsx:17-23): functions from the keys present to  *)
(* their values; an optional field that is undefined is not in the domain. *)

Ids == {"m1", "m2"}

Statuses == {"started", "completed", "failed"}

KeyOrder == <<"migrationId", "status", "startedAt", "completedAt", "duration">>

StringKeys == {"migrationId", "status"}

\* body of a successful POST /start-migration
StartBody(id, st) == [migrationId |-> id, status |-> st, startedAt |-> 1000]

\* body of a successful GET /migration-status/{id}
StatusBody(id, st) ==
    IF st = "started"
    THEN [migrationId |-> id, status |-> st]
    ELSE [migrationId |-> id, status |-> st, completedAt |-> 4000, duration |-> 3000]

\* a record of an earlier session, as it was stored
StoredRecord(id, st) ==
    IF st = "started"
    THEN StartBody(id, st)
    ELSE [migrationId |-> id, status |-> st, startedAt |-> 1000,
          completedAt |-> 4000, duration |-> 3000]

----------------------------------------------------------------------------
(* JSON.stringify / JSON.parse of the list (Page.tsx:44, 54).  A text is   *)
(* a record [kind, items]: kind "array" with one item per element, each    *)
(* item the sequence of its members <<key, value text>>; a value text is   *)
(* a sequence of characters: a quoted string or the decimal digits of a    *)
(* number.                                                                 *)

DigitChars == <<"0", "1", "2", "3", "4", "5", "6", "7", "8", "9">>

RECURSIVE NumberToText(_)
NumberToText(n) ==
    IF n < 10
    THEN <<DigitChars[n + 1]>>
    ELSE Append(NumberToText(n \div 10), DigitChars[(n % 10) + 1])

DigitValue(c) == CHOOSE d \in 0..9 : DigitChars[d + 1] = c

RECURSIVE TextToNumber(_)
TextToNumber(t) ==
    IF Len(t) = 1
    THEN DigitValue(t[1])
    ELSE 10 * TextToNumber(SubSeq(t, 1, Len(t) - 1)) + DigitValue(t[Len(t)])

ValueToText(k, v) ==
    IF k \in StringKeys THEN <<"\"", v, "\"">> ELSE NumberToText(v)

TextToValue(k, t) ==
    IF k \in StringKeys THEN t[2] ELSE TextToNumber(t)

\* the members of one object, in key order; undefined fields are omitted
RECURSIVE MembersFrom(_, _)
MembersFrom(m, i) ==
    IF i > Len(KeyOrder) THEN <<>>
    ELSE IF KeyOrder[i] \in DOMAIN m
         THEN <<(<<KeyOrder[i], ValueToText(KeyOrder[i], m[KeyOrder[i]])>>)>>
              \o MembersFrom(m, i + 1)
         ELSE MembersFrom(m, i + 1)

StringifyRecord(m) == MembersFrom(m, 1)

JSONStringify(list) ==
    [kind |-> "array", items |-> [i \in 1..Len(list) |-> StringifyRecord(list[i])]]

ParseRecord(item) ==
    [k \in {item[j][1] : j \in 1..Len(item)} |->
        LET j == CHOOSE j \in 1..Len(item) : item[j][1] = k
        IN  TextToValue(k, item[j][2])]

\* JSON.parse of a text of kind "array"
JSONParse(text) == [i \in 1..Len(text.items) |-> ParseRecord(text.items[i])]

\* texts that are not the JSON of a list
EmptyText == [kind |-> "empty", items |-> <<>>]      \* ""
InvalidText == [kind |-> "invalid", items |-> <<>>]  \* not JSON: JSON.parse throws
OtherText == [kind |-> "other", items |-> <<>>]      \* JSON, but no array (null, {})

NoItem == [present |-> FALSE, text |-> EmptyText]

Item(text) == [present |-> TRUE, text |-> text]

\* variant: only the records that are not started are kept
saveFinishedOnly(store, list, ok) ==
    LET Finished(m) == m.status # "started"
    IN  IF ok THEN Item(JSONStringify(SelectSeq(list, Finished))) ELSE store

\* saveMigrationsToStorage: setItem may throw (quota), which is caught and logged
saveMigrationsToStorage(store, list, ok) ==
    IF ok THEN Item(JSONStringify(list)) ELSE store

\* loadMigrationsFromStorage: the value returned; kind "value" is a parsed
\* value that is no list, which the caller receives as it is
loadMigrationsFromStorage(store) ==
    IF ~store.present \/ store.text.kind = "empty" THEN [kind |-> "list", list |-> <<>>]
    ELSE IF store.text.kind = "invalid" THEN [kind |-> "list", list |-> <<>>]
    ELSE IF store.text.kind = "other" THEN [kind |-> "value", list |-> <<>>]
    ELSE [kind |-> "list", list |-> JSONParse(store.text)]

----------------------------------------------------------------------------
(* Derived values of a render *)

\* Page.tsx:36
hasActiveMigrations(list) == \E i \in 1..Len(list) : list[i].status = "started"

IsStarted(m) == m.status = "started"

\* migrations.filter(m => m.status === "started"), as the ids in list order
ActiveIds(list) ==
    LET act == SelectSeq(list, IsStarted)
    IN  [i \in 1..Len(act) |-> act[i].migrationId]

\* variant: isDisabled={isStarting}, the active migrations forgotten
StartEnabledIgnoringActive ==
    /\ phase = "mounted"
    /\ ~isLoading
    /\ ~isStarting

\* the start button is rendered (Page.tsx:240, 255) and not disabled (Page.tsx:264)
StartEnabled ==
    /\ phase = "mounted"
    /\ ~isLoading
    /\ ~(isStarting \/ hasActiveMigrations(migrations))

----------------------------------------------------------------------------
(* The updater of checkMigrationStatus (Page.tsx:155-173) *)

\* prev.find(m => m.migrationId === migrationId): the index of the first match, or 0
FindIndex(prev, id) ==
    IF \E i \in 1..Len(prev) : prev[i].migrationId = id
    THEN CHOOSE i \in 1..Len(prev) :
            /\ prev[i].migrationId = id
            /\ \A j \in 1..(i - 1) : prev[j].migrationId # id
    ELSE 0

\* oldMigration?.status === "started"
WasStarted(prev, id) ==
    /\ FindIndex(prev, id) # 0
    /\ prev[FindIndex(prev, id)].status = "started"

NoNotes == [success |-> 0, error |-> 0]

\* variant: the wasStarted baseline forgotten
StatusNotesNoBaseline(prev, id, u) ==
    IF u.status = "completed" THEN [success |-> 1, error |-> 0]
    ELSE IF u.status = "failed" THEN [success |-> 0, error |-> 1]
    ELSE NoNotes

\* the notifications of one status update (Page.tsx:162-168)
StatusNotes(prev, id, u) ==
    IF WasStarted(prev, id) /\ u.status = "completed" THEN [success |-> 1, error |-> 0]
    ELSE IF WasStarted(prev, id) /\ u.status = "failed" THEN [success |-> 0, error |-> 1]
    ELSE NoNotes

\* variant: the record replaced by the update, its other fields lost
MergeReplace(m, u) == u

\* { ...m, ...updatedMigration }
Merge(m, u) ==
    [k \in (DOMAIN m) \cup (DOMAIN u) |-> IF k \in DOMAIN u THEN u[k] ELSE m[k]]

\* variant: the records of other ids dropped (filter in place of map)
ApplyStatusMatchedOnly(prev, id, u) ==
    LET Matches(m) == m.migrationId = id
        kept == SelectSeq(prev, Matches)
    IN  [i \in 1..Len(kept) |-> Merge(kept[i], u)]

\* prev.map(m => m.migrationId === migrationId ? {...m, ...updatedMigration} : m)
ApplyStatus(prev, id, u) ==
    [i \in 1..Len(prev) |-> IF prev[i].migrationId = id THEN Merge(prev[i], u) ELSE prev[i]]

\* variant: [...prev, migration]
AppendMigration(prev, m) == prev \o <<m>>

\* the updater of startMigration (Page.tsx:117): [migration, ...prev]
PrependMigration(prev, m) == <<m>> \o prev

----------------------------------------------------------------------------
(* Status checks in flight: a bag of [id, src].  src tells the caller (the *)
(* init loop or a timer tick).  A call awaits the signing (Page.tsx:133)   *)
(* and then the fetch (Page.tsx:143); it reads no state in between, so the *)
(* two awaits are one pending call that resolves with one outcome.         *)

ReqKeys == [id : Ids, src : {"init", "tick"}]

NoReqs == [k \in ReqKeys |-> 0]

Req(id, src) == [id |-> id, src |-> src]

AddReq(bag, k) == [bag EXCEPT ![k] = @ + 1]

RemoveReq(bag, k) == [bag EXCEPT ![k] = @ - 1]

RECURSIVE AddTickReqs(_, _)
AddTickReqs(bag, ids) ==
    IF ids = <<>> THEN bag
    ELSE AddTickReqs(AddReq(bag, Req(Head(ids), "tick")), Tail(ids))

RECURSIVE SumOver(_, _)
SumOver(bag, keys) ==
    IF keys = {} THEN 0
    ELSE LET k == CHOOSE k \in keys : TRUE
         IN  bag[k] + SumOver(bag, keys \ {k})

InFlight(bag, src) == SumOver(bag, {k \in ReqKeys : k.src = src})

----------------------------------------------------------------------------
(* Effects *)

Clean == [migrations |-> FALSE, isLoading |-> FALSE]

NoStarts == [signing |-> 0, fetching |-> 0]

StartsInFlight == starts.signing + starts.fetching

\* nothing loaded yet
NoValue == [kind |-> "none", list |-> <<>>]

NoTimer == [on |-> FALSE, ids |-> <<>>]

\* variant: the cleanup does not clear its interval
PollCleanupNoClear(t) == IF t.on THEN {t.ids} ELSE {}

\* the cleanup of the poll effect (Page.tsx:196-199): of the interval of its
\* run, what it leaves armed; clearInterval leaves nothing
PollCleanup(t) == {}

\* variant: the effect never arms the interval
PollEffectNever(list) == NoTimer

\* variant: migrations.length tested in place of activeMigrations.length
PollEffectAnyRecord(list) ==
    IF list = <<>> THEN NoTimer ELSE [on |-> TRUE, ids |-> ActiveIds(list)]

\* the auto-poll effect (Page.tsx:181-195): the interval it leaves running,
\* with the activeMigrations its callback closes over
PollEffect(list) ==
    IF ActiveIds(list) = <<>> THEN NoTimer ELSE [on |-> TRUE, ids |-> ActiveIds(list)]

\* variant: the guard forgotten
SaveRunsAlways(loading) == TRUE

\* the guard of the save effect: if (!isLoading) (Page.tsx:88)
SaveRuns(loading) == ~loading

\* the save effect (Page.tsx:87-91)
SaveEffect(store, list, loading, ok) ==
    IF SaveRuns(loading) THEN saveMigrationsToStorage(store, list, ok) ELSE store

\* the outcome of the latest setItem after the save effect has run
SaveOutcome(last, loading, ok) ==
    IF SaveRuns(loading) THEN (IF ok THEN "ok" ELSE "failed") ELSE last

Op(kind, src, id, status, notes) ==
    [kind |-> kind, src |-> src, id |-> id, status |-> status,
     success |-> notes.success, error |-> notes.error]

----------------------------------------------------------------------------
(* Initial states: the component is constructed (useState initial values)  *)
(* and localStorage holds what an earlier session, or anything else, left. *)

InitialLists ==
    { <<>>,
      <<StoredRecord("m1", "started")>>,
      <<StoredRecord("m1", "completed")>>,
      <<StoredRecord("m2", "started"), StoredRecord("m1", "started")>>,
      <<StoredRecord("m2", "failed"), StoredRecord("m1", "started")>>,
      <<StoredRecord("m1", "completed"), StoredRecord("m1", "started")>> }

InitialStorages ==
    {NoItem, Item(EmptyText), Item(InvalidText), Item(OtherText)}
        \cup {Item(JSONStringify(l)) : l \in InitialLists}

\* no job known to the backend
NoJobs == [id \in Ids |-> "none"]

\* the component as constructed: the useState initial values (Page.tsx:28-33),
\* nothing in flight
Constructed ==
    /\ phase = "new"
    /\ migrations = <<>>
    /\ isStarting = FALSE
    /\ isPolling = FALSE
    /\ isLoading = TRUE
    /\ lastSave = "none"
    /\ dirty = Clean
    /\ timer = NoTimer
    /\ starts = NoStarts
    /\ storedMigrations = NoValue
    /\ initActive = <<>>
    /\ initIdx = 0
    /\ reqs = NoReqs
    /\ lastOp = Op("none", "-", "-", "-", NoNotes)
    /\ orphans = {}
    /\ early = NoReqs
    /\ notified = {}

Init ==
    /\ Constructed
    /\ storage \in InitialStorages
    /\ writable \in BOOLEAN
    /\ jobs = NoJobs

----------------------------------------------------------------------------
(* initializeMigrations (Page.tsx:63-81): the loop over activeMigrations.  *)
(* next is the index of the check the loop turns to.                       *)

RECURSIVE AddInitReqs(_, _)
AddInitReqs(bag, ids) ==
    IF ids = <<>> THEN bag
    ELSE AddInitReqs(AddReq(bag, Req(Head(ids), "init")), Tail(ids))

\* variant: the await forgotten, every check is issued at once
InitIssueAll(bag, active, next) ==
    IF next = 1 THEN AddInitReqs(bag, active) ELSE bag

\* for (const migration of activeMigrations) await checkMigrationStatus(...)
InitIssue(bag, active, next) ==
    IF next <= Len(active) THEN AddReq(bag, Req(active[next], "init")) ELSE bag

\* the loop is over: setIsLoading(false) is reached
InitFinished(active, next) == next > Len(active)

Mounted == phase = "mounted"

\* The mount: the three effects run after the first render, in order.  The
\* init effect loads the list and runs to its first await; the save effect and
\* the poll effect then run on the state of the first render (the empty list,
\* isLoading = true).  A stored value that is no list makes .filter throw
\* (Page.tsx:68) and the next render fail (Page.tsx:36).
Mount ==
    /\ phase = "new"
    /\ LET loaded == loadMigrationsFromStorage(storage)
           active == ActiveIds(loaded.list)
       IN  /\ storedMigrations' = loaded
           /\ IF loaded.kind # "list"
              THEN /\ phase' = "crashed"
                   /\ lastOp' = Op("crash", "-", "-", "-", NoNotes)
                   /\ UNCHANGED <<migrations, isLoading, dirty, initActive, initIdx, reqs>>
              ELSE /\ phase' = "mounted"
                   /\ migrations' = loaded.list
                   /\ initActive' = active
                   /\ initIdx' = 1
                   /\ reqs' = InitIssue(reqs, active, 1)
                   /\ isLoading' = ~InitFinished(active, 1)
                   /\ dirty' = [migrations |-> TRUE, isLoading |-> InitFinished(active, 1)]
                   /\ lastOp' = Op("mount", "-", "-", "-", NoNotes)
    /\ storage' = SaveEffect(storage, migrations, isLoading, writable)
    /\ lastSave' = SaveOutcome(lastSave, isLoading, writable)
    /\ timer' = PollEffect(migrations)
    /\ isPolling' = PollEffect(migrations).on
    /\ UNCHANGED <<isStarting, writable, orphans, starts>>
    /\ UNCHANGED backend

\* The passive effects of the last commit: the cleanup of the poll effect
\* (Page.tsx:196-199), the save effect (Page.tsx:87-91), the poll effect
\* (Page.tsx:181-195).  setItem throws when the storage takes no write (quota
\* exceeded, storage disabled), a condition of the session.
FlushEffects ==
    /\ Mounted
    /\ dirty # Clean
    /\ storage' = SaveEffect(storage, migrations, isLoading, writable)
    /\ lastSave' = SaveOutcome(lastSave, isLoading, writable)
    /\ timer' = IF dirty.migrations THEN PollEffect(migrations) ELSE timer
    /\ isPolling' = IF dirty.migrations THEN PollEffect(migrations).on ELSE isPolling
    /\ orphans' = IF dirty.migrations THEN orphans \cup PollCleanup(timer) ELSE orphans
    /\ dirty' = Clean
    /\ lastOp' = Op("effects", "-", "-", "-", NoNotes)
    /\ UNCHANGED <<phase, migrations, isStarting, isLoading, writable, starts,
                   storedMigrations, initActive, initIdx, reqs>>
    /\ UNCHANGED backend

\* A click on the start button: startMigration up to its first await
\* (Page.tsx:93-96)
StartClick ==
    /\ StartEnabled
    /\ dirty = Clean
    /\ Len(migrations) < MaxRecords
    /\ isStarting' = TRUE
    /\ starts' = [starts EXCEPT !.signing = @ + 1]
    /\ lastOp' = Op("startClick", "start", "-", "-", NoNotes)
    /\ UNCHANGED <<phase, migrations, isPolling, isLoading, storage, writable, orphans, lastSave,
                   dirty, timer, storedMigrations, initActive, initIdx, reqs>>
    /\ UNCHANGED backend

\* variant: response.ok not tested, the body of any response is taken
StartResultUnchecked(prev, outcome, body) ==
    IF outcome \in {"ok", "notOk"} THEN PrependMigration(prev, body) ELSE prev

\* the list after a start call has resolved with `outcome` (Page.tsx:115-121)
StartResult(prev, outcome, body) ==
    IF outcome = "ok" THEN PrependMigration(prev, body) ELSE prev

\* the notifications of a start call that has resolved (Page.tsx:118, 124)
StartNotes(outcome) ==
    IF outcome = "ok" THEN [success |-> 1, error |-> 0] ELSE [success |-> 0, error |-> 1]

\* isStarting after the finally of startMigration (Page.tsx:125-127)
StartFinally(starting) == FALSE

\* startMigration from a resolved await at `stage` to its end: catch and finally
\* included.  The notifier does not belong to the component and is called
\* whether it is mounted or not; an unmounted component takes no update.
StartResolved(stage, outcome, body) ==
    /\ starts' = [starts EXCEPT ![stage] = @ - 1]
    /\ lastOp' = IF outcome = "ok"
                 THEN Op("startOk", "start", body.migrationId, body.status, StartNotes(outcome))
                 ELSE Op("startFailed", "start", "-", outcome, StartNotes(outcome))
    /\ IF Mounted
       THEN /\ migrations' = StartResult(migrations, outcome, body)
            /\ isStarting' = StartFinally(isStarting)
            /\ dirty' = [migrations |-> outcome = "ok", isLoading |-> FALSE]
       ELSE UNCHANGED <<migrations, isStarting, dirty>>
    /\ UNCHANGED <<phase, isPolling, isLoading, storage, writable, orphans, lastSave, timer,
                   storedMigrations, initActive, initIdx, reqs>>

\* cma.appSignedRequest.create (Page.tsx:96) resolves, and the fetch is issued,
\* or rejects
StartSigned ==
    /\ starts.signing > 0
    /\ dirty = Clean
    /\ \/ /\ starts' = [starts EXCEPT !.signing = @ - 1, !.fetching = @ + 1]
          /\ lastOp' = Op("startSigned", "start", "-", "-", NoNotes)
          /\ UNCHANGED <<phase, migrations, isStarting, isPolling, isLoading, storage,
                         writable, orphans, lastSave, dirty, timer, storedMigrations, initActive,
                         initIdx, reqs>>
       \/ StartResolved("signing", "signFail", StartBody("m1", "started"))
    /\ UNCHANGED backend

StartOutcomes == {"ok", "notOk", "netError", "badBody"}

\* the fetch of Page.tsx:106 resolves or rejects; the body of a successful
\* response is what the backend chose to answer
StartFetched ==
    /\ starts.fetching > 0
    /\ dirty = Clean
    /\ \E outcome \in StartOutcomes, id \in Ids, st \in Statuses :
        /\ outcome # "ok" => (id = "m1" /\ st = "started")
        /\ StartResolved("fetching", outcome, StartBody(id, st))
    /\ UNCHANGED backend

\* what is left of checkMigrationStatus for a call of the init loop: the await
\* of Page.tsx:76 returns and the loop goes on, to the next check or to
\* setIsLoading(false)
AfterCheck(k, committed) ==
    IF k.src = "init"
    THEN /\ initIdx' = initIdx + 1
         /\ reqs' = InitIssue(RemoveReq(reqs, k), initActive, initIdx + 1)
         /\ isLoading' = IF Mounted /\ InitFinished(initActive, initIdx + 1)
                         THEN FALSE ELSE isLoading
         /\ dirty' = [migrations |-> committed,
                      isLoading |-> Mounted /\ InitFinished(initActive, initIdx + 1)]
    ELSE /\ reqs' = RemoveReq(reqs, k)
         /\ dirty' = [migrations |-> committed, isLoading |-> FALSE]
         /\ UNCHANGED <<initIdx, isLoading>>

\* variant: the catch notifies, as the catch of startMigration does
StatusFailureNotesNotify(why) == [success |-> 0, error |-> 1]

\* the notifications of a failed status check: the catch only logs
\* (Page.tsx:175-177)
StatusFailureNotes(why) == NoNotes

\* a status check fails: the signing or the fetch rejects, the response is
\* not ok, or its body cannot be read
StatusFailed(k, why) ==
    /\ AfterCheck(k, FALSE)
    /\ lastOp' = Op("statusFailed", k.src, k.id, why, StatusFailureNotes(why))
    /\ UNCHANGED <<phase, migrations, isStarting, isPolling, storage, writable, orphans, lastSave,
                   timer, starts, storedMigrations, initActive>>

StatusFailures == {"signFail", "notOk", "netError", "badBody"}

\* a status check fails at the signing or at the fetch
StatusError ==
    /\ dirty = Clean
    /\ \E k \in ReqKeys, why \in StatusFailures :
        /\ reqs[k] > 0
        /\ StatusFailed(k, why)
    /\ UNCHANGED backend

\* the fetch of a status check answers ok: the updater runs on the current
\* list (Page.tsx:153-174).  An unmounted component takes no update.
StatusAnswered(k, st) ==
    /\ AfterCheck(k, Mounted)
    /\ IF Mounted
       THEN /\ migrations' = ApplyStatus(migrations, k.id, StatusBody(k.id, st))
            /\ lastOp' = Op("statusOk", k.src, k.id, st,
                            StatusNotes(migrations, k.id, StatusBody(k.id, st)))
       ELSE /\ lastOp' = Op("statusDropped", k.src, k.id, st, NoNotes)
            /\ UNCHANGED migrations
    /\ UNCHANGED <<phase, isStarting, isPolling, storage, writable, orphans, lastSave,
                   timer, starts, storedMigrations, initActive>>

\* a status check is answered, with any status
StatusOk ==
    /\ dirty = Clean
    /\ \E k \in ReqKeys, st \in Statuses :
        /\ reqs[k] > 0
        /\ StatusAnswered(k, st)
    /\ UNCHANGED backend

\* the intervals armed: the one of the latest run of the poll effect, with the
\* activeMigrations its callback closes over, and those no cleanup has cleared
Armed == (IF timer.on THEN {timer.ids} ELSE {}) \cup orphans

\* an interval fires: one check per captured active migration (Page.tsx:190-194)
Tick ==
    /\ \E ids \in Armed :
        /\ InFlight(reqs, "tick") + Len(ids) <= MaxInFlight
        /\ reqs' = AddTickReqs(reqs, ids)
    /\ lastOp' = Op("tick", "tick", "-", "-", NoNotes)
    /\ UNCHANGED orphans
    /\ UNCHANGED <<phase, migrations, isStarting, isPolling, isLoading, storage, writable,
                   lastSave, dirty, timer, starts, storedMigrations, initActive, initIdx>>
    /\ UNCHANGED backend

\* the panel is torn down: the cleanup of the poll effect clears the interval
\* and the component's state is discarded; pending calls stay pending
Unmount ==
    /\ Mounted
    /\ phase' = "unmounted"
    /\ timer' = NoTimer
    /\ orphans' = orphans \cup PollCleanup(timer)
    /\ dirty' = Clean
    /\ migrations' = <<>>
    /\ isStarting' = FALSE
    /\ isPolling' = FALSE
    /\ isLoading' = TRUE
    /\ lastOp' = Op("unmount", "-", "-", "-", NoNotes)
    /\ UNCHANGED <<storage, writable, lastSave, starts, storedMigrations, initActive,
                   initIdx, reqs>>
    /\ UNCHANGED backend

\* the backend answers anything: its state is left out
Next ==
    \/ Mount
    \/ FlushEffects
    \/ StartClick
    \/ StartSigned
    \/ StartFetched
    \/ StatusError
    \/ StatusOk
    \/ Tick
    \/ Unmount

Spec == Init /\ [][Next]_vars

----------------------------------------------------------------------------
(* The panel with the backend the spec assumes: it issues unique ids, and   *)
(* the status it holds for a job only moves forward, from "started" to      *)
(* "completed" or "failed".  A status check is answered with the status the *)
(* backend holds when it handles the request, some time between the issue   *)
(* of the request and the delivery of the response; responses are delivered *)
(* in any order.                                                            *)

UniqueIds(list) ==
    \A i, j \in 1..Len(list) : list[i].migrationId = list[j].migrationId => i = j

\* the states of the backend that agree with a stored list: a job stored as
\* finished is finished, a job stored as started may have finished since
BackendsFor(list) ==
    {b \in [Ids -> Statuses \cup {"none"}] :
        \A id \in Ids :
            IF \E i \in 1..Len(list) : list[i].migrationId = id
            THEN \A i \in 1..Len(list) :
                    list[i].migrationId = id =>
                        (b[id] = list[i].status \/
                            (list[i].status = "started" /\ b[id] # "none"))
            ELSE b[id] = "none"}

JobInit ==
    /\ Constructed
    /\ writable \in BOOLEAN
    /\ \E l \in {x \in InitialLists : UniqueIds(x)} :
        /\ storage \in (IF l = <<>> THEN {NoItem, Item(InvalidText)} ELSE {})
                            \cup {Item(JSONStringify(l))}
        /\ jobs \in BackendsFor(l)

\* POST /start-migration is answered: the backend has created a job under an
\* id it never issued, in status "started"; or the call fails
JobStarted ==
    /\ starts.fetching > 0
    /\ dirty = Clean
    /\ \/ \E id \in Ids :
            /\ jobs[id] = "none"
            /\ jobs' = [jobs EXCEPT ![id] = "started"]
            /\ StartResolved("fetching", "ok", StartBody(id, "started"))
       \/ \E outcome \in StartOutcomes \ {"ok"} :
            /\ StartResolved("fetching", outcome, StartBody("m1", "started"))
            /\ UNCHANGED jobs
    /\ UNCHANGED <<early, notified>>

\* a job finishes on the backend; the checks in flight for it were issued
\* before and may have been handled before
JobFinished ==
    /\ \E id \in Ids, st \in Statuses \ {"started"} :
        /\ jobs[id] = "started"
        /\ jobs' = [jobs EXCEPT ![id] = st]
        /\ early' = [k \in ReqKeys |-> IF k.id = id THEN reqs[k] ELSE early[k]]
        /\ lastOp' = Op("jobFinished", "backend", id, st, NoNotes)
    /\ UNCHANGED <<phase, migrations, isStarting, isPolling, isLoading, storage, writable,
                   lastSave, dirty, timer, starts, storedMigrations, initActive, initIdx,
                   reqs, orphans, notified>>

\* the check delivered is one issued before its job finished, or one issued
\* since (or for a job that has not finished)
Delivered(k, wasEarly) ==
    /\ reqs[k] > 0
    /\ IF wasEarly THEN early[k] > 0 ELSE reqs[k] > early[k]
    /\ early' = IF wasEarly THEN [early EXCEPT ![k] = @ - 1] ELSE early

\* the statuses the backend may have answered a check with
Answers(k, wasEarly) ==
    IF jobs[k.id] = "none" THEN {}
    ELSE IF wasEarly THEN {"started", jobs[k.id]}
    ELSE {jobs[k.id]}

\* the response to check k is delivered, with status st
JobAnswered(k, wasEarly, st) ==
    /\ dirty = Clean
    /\ Delivered(k, wasEarly)
    /\ st \in Answers(k, wasEarly)
    /\ StatusAnswered(k, st)
    /\ notified' =
          IF Mounted /\ StatusNotes(migrations, k.id, StatusBody(k.id, st)) # NoNotes
          THEN notified \cup {k.id} ELSE notified
    /\ UNCHANGED jobs

JobStatusOk ==
    \E k \in ReqKeys, wasEarly \in BOOLEAN, st \in Statuses : JobAnswered(k, wasEarly, st)

\* check k fails
JobFailed(k, wasEarly, why) ==
    /\ dirty = Clean
    /\ Delivered(k, wasEarly)
    /\ StatusFailed(k, why)
    /\ UNCHANGED <<jobs, notified>>

JobStatusError ==
    \E k \in ReqKeys, wasEarly \in BOOLEAN, why \in StatusFailures :
        JobFailed(k, wasEarly, why)

JobNext ==
    \/ Mount
    \/ FlushEffects
    \/ StartClick
    \/ StartSigned
    \/ Tick
    \/ Unmount
    \/ JobStarted
    \/ JobFinished
    \/ JobStatusOk
    \/ JobStatusError

SpecMonotone == JobInit /\ [][JobNext]_vars

\* the panel is told that job id has finished
ReportsTerminal(id) ==
    \E k \in ReqKeys, wasEarly \in BOOLEAN, st \in Statuses \ {"started"} :
        /\ k.id = id
        /\ JobAnswered(k, wasEarly, st)

\* The scheduling: queued effects run and an armed interval fires; calls in
\* flight go on resolving; every job finishes on the backend, and the backend
\* gets to report it.  Nothing obliges the operator to click or to stay.
Fairness ==
    /\ WF_vars(FlushEffects)
    /\ WF_vars(Tick)
    /\ SF_vars(StartSigned \/ JobStarted)
    /\ WF_vars(JobFinished)
    /\ SF_vars(JobStatusOk \/ JobStatusError)
    /\ \A id \in Ids : SF_vars(ReportsTerminal(id))

\* an earlier session left one started record, and the storage takes writes
LiveInit ==
    /\ Constructed
    /\ writable = TRUE
    /\ \E l \in {x \in InitialLists : UniqueIds(x) /\ Len(ActiveIds(x)) = 1} :
        /\ storage = Item(JSONStringify(l))
        /\ jobs \in BackendsFor(l)

\* the panel stays mounted: the steps of JobNext but the teardown
LiveNext ==
    \/ Mount
    \/ FlushEffects
    \/ StartClick
    \/ StartSigned
    \/ Tick
    \/ JobStarted
    \/ JobFinished
    \/ JobStatusOk
    \/ JobStatusError

SpecLive == LiveInit /\ [][LiveNext]_vars /\ Fairness

----------------------------------------------------------------------------
(* Claims *)

\* C1: a start call is issued only from a state where the start button is
\* rendered and enabled, that is with no start call in flight (isStarting
\* false) and no record of the list in status "started"; hence at most one
\* start call is in flight at any time.
C1_StartOnlyWhenIdle ==
    [][ /\ StartsInFlight' <= 1
        /\ StartsInFlight' > StartsInFlight =>
              /\ phase = "mounted"
              /\ ~isLoading
              /\ ~isStarting
              /\ StartsInFlight = 0
              /\ \A i \in 1..Len(migrations) : migrations[i].status # "started"
      ]_vars

\* a start call has just been issued from a list that holds records
C1_Witness ==
    /\ lastOp.kind = "startClick"
    /\ StartsInFlight = 1
    /\ migrations # <<>>

\* the record a status update for `id` is compared with: the first of that id
PriorStatusIs(list, id, st) ==
    \E i \in 1..Len(list) :
        /\ list[i].migrationId = id
        /\ list[i].status = st
        /\ \A j \in 1..(i - 1) : list[j].migrationId # id

NoPriorStarted(list, id) ==
    \A i \in 1..Len(list) : list[i].migrationId = id => list[i].status # "started"

\* C2: a status update applied to the list for id X whose record was
\* "started" emits exactly one success notification (and no failure one) when
\* it reports "completed", exactly one failure notification (and no success
\* one) when it reports "failed", none when it reports "started"; with no
\* record of id X in status "started" it emits none.
C2_StatusNotifications ==
    [][ lastOp'.kind = "statusOk" =>
          /\ PriorStatusIs(migrations, lastOp'.id, "started") =>
                /\ lastOp'.status = "completed" => (lastOp'.success = 1 /\ lastOp'.error = 0)
                /\ lastOp'.status = "failed" => (lastOp'.success = 0 /\ lastOp'.error = 1)
                /\ lastOp'.status = "started" => (lastOp'.success = 0 /\ lastOp'.error = 0)
          /\ NoPriorStarted(migrations, lastOp'.id) =>
                (lastOp'.success = 0 /\ lastOp'.error = 0)
      ]_vars

\* a started record has just been reported completed and notified once
C2_Witness ==
    /\ lastOp.kind = "statusOk"
    /\ lastOp.status = "completed"
    /\ lastOp.success = 1
    /\ \E i \in 1..Len(migrations) :
          migrations[i].migrationId = lastOp.id /\ migrations[i].status = "completed"

\* C3: once the effects of the current list have run, the poll timer of a
\* mounted panel is active exactly when a record of the list is "started";
\* with no started record it is cancelled and no tick fires.
C3_TimerIffActive ==
    [][ /\ (phase' = "mounted" /\ ~dirty'.migrations) =>
              (timer'.on <=> \E i \in 1..Len(migrations') : migrations'[i].status = "started")
        /\ (lastOp'.kind = "tick" /\ ~dirty.migrations) =>
              \E i \in 1..Len(migrations) : migrations[i].status = "started"
      ]_vars

\* the timer ran for the records loaded as started and has been cancelled
C3_Witness ==
    /\ phase = "mounted"
    /\ dirty = Clean
    /\ ~timer.on
    /\ initActive # <<>>
    /\ lastOp.kind = "effects"

\* C4: a start call that the backend answers with success prepends the
\* returned record to the list, the prior records following in their order,
\* and emits exactly one success notification and no failure one; as long as
\* a start call is in flight the start action is disabled.
C4_StartSuccess ==
    [][ /\ (lastOp'.kind = "startOk" /\ phase = "mounted") =>
              /\ Len(migrations') = Len(migrations) + 1
              /\ migrations'[1] = StartBody(lastOp'.id, lastOp'.status)
              /\ \A i \in 1..Len(migrations) : migrations'[i + 1] = migrations[i]
              /\ lastOp'.success = 1
              /\ lastOp'.error = 0
        /\ (phase' = "mounted" /\ StartsInFlight' > 0) => ~StartEnabled'
      ]_vars

\* a start has succeeded on a list that held a record
C4_Witness ==
    /\ lastOp.kind = "startOk"
    /\ phase = "mounted"
    /\ Len(migrations) >= 2
    /\ ~isStarting

\* C5: a start call that fails (signing, network, non-ok status, unreadable
\* body) leaves the list as it was, emits exactly one failure notification and
\* no success one, and resets isStarting, so that the start action is enabled
\* again when no record is started.
C5_StartFailure ==
    [][ (lastOp'.kind = "startFailed" /\ phase = "mounted") =>
          /\ migrations' = migrations
          /\ lastOp'.success = 0
          /\ lastOp'.error = 1
          /\ ~isStarting'
          /\ (\A i \in 1..Len(migrations') : migrations'[i].status # "started") =>
                StartEnabled'
      ]_vars

\* a start has failed with a non-ok response and the button is enabled again
C5_Witness ==
    /\ lastOp.kind = "startFailed"
    /\ lastOp.status = "notOk"
    /\ StartEnabled
    /\ migrations # <<>>

\* C6: a status check that fails (signing, network, non-ok status, unreadable
\* body) leaves the list as it was and emits no notification, and its caller
\* goes on: the init loop turns to its next check or completes the
\* initialization, the timer is left as it is.
C6_StatusFailure ==
    [][ lastOp'.kind = "statusFailed" =>
          /\ migrations' = migrations
          /\ lastOp'.success = 0
          /\ lastOp'.error = 0
          /\ timer' = timer
          /\ storage' = storage
          /\ lastOp'.src = "init" =>
                /\ initIdx' = initIdx + 1
                /\ initIdx' <= Len(initActive) => reqs'[Req(initActive[initIdx'], "init")] = 1
                /\ (initIdx' > Len(initActive) /\ phase = "mounted") => ~isLoading'
      ]_vars

\* the last init check has failed and the initialization is complete
C6_Witness ==
    /\ lastOp.kind = "statusFailed"
    /\ lastOp.src = "init"
    /\ phase = "mounted"
    /\ ~isLoading
    /\ \E i \in 1..Len(migrations) : migrations[i].status = "started"

\* C7: while isLoading is true no poll timer runs and no timer-driven status
\* check is in flight.
C7_NoPollWhileLoading ==
    (phase = "mounted" /\ isLoading) => (~timer.on /\ InFlight(reqs, "tick") = 0)

\* C8: the init checks are issued one at a time, in the order of the started
\* records of the loaded list: at most one is in flight, it is the check of
\* initActive[initIdx], initIdx moves one record at a time, and isLoading is
\* false only once the last check has resolved.
C8_InitSequential ==
    [][ /\ InFlight(reqs', "init") <= 1
        /\ \A k \in ReqKeys : (k.src = "init" /\ reqs'[k] > 0) =>
              /\ initIdx' \in 1..Len(initActive')
              /\ k.id = initActive'[initIdx']
        /\ initIdx' # initIdx => initIdx' = initIdx + 1
        /\ (initIdx' \in 1..Len(initActive')) => InFlight(reqs', "init") = 1
        /\ (phase' = "mounted" /\ ~isLoading') =>
              (initIdx' > Len(initActive') /\ InFlight(reqs', "init") = 0)
      ]_vars

\* the second init check is in flight, the first having resolved
C8_Witness ==
    /\ phase = "mounted"
    /\ isLoading
    /\ Len(initActive) = 2
    /\ initIdx = 2
    /\ reqs[Req(initActive[2], "init")] = 1

\* C9: nothing is written while isLoading is true; afterwards the list does
\* not change again before the save effect of its last change has run, and
\* that effect writes the whole current list, so that with a storage that
\* takes the writes and no effect pending the stored list is the list.
C9_SaveAfterInit ==
    [][ /\ (phase' = "mounted" /\ isLoading') => (lastSave' = "none" /\ storage' = storage)
        /\ storage' # storage =>
              (phase = "mounted" /\ ~isLoading /\ lastOp'.kind = "effects")
        /\ (phase = "mounted" /\ dirty.migrations /\ phase' = "mounted") =>
              (migrations' = migrations /\ lastOp'.kind \in {"effects", "tick"})
        /\ (lastOp'.kind = "effects" /\ ~isLoading /\ writable) =>
              loadMigrationsFromStorage(storage') = [kind |-> "list", list |-> migrations]
        /\ (phase' = "mounted" /\ ~isLoading' /\ dirty' = Clean /\ writable) =>
              loadMigrationsFromStorage(storage') = [kind |-> "list", list |-> migrations']
      ]_vars

\* a list changed since it was loaded has been written
C9_Witness ==
    /\ phase = "mounted"
    /\ ~isLoading
    /\ dirty = Clean
    /\ lastOp.kind = "effects"
    /\ Len(migrations) >= 2
    /\ migrations # storedMigrations.list
    /\ storage = Item(JSONStringify(migrations))

----------------------------------------------------------------------------
(* The round trip of the persistence functions on their own: a list is     *)
(* saved, then loaded.                                                     *)

\* length of the lists saved
RTMaxLen == 2

EmptyRecord == [k \in {} |-> 0]

\* an optional field: undefined, or one of `values`
OptionalField(k, values) == {EmptyRecord} \cup {[x \in {k} |-> v] : v \in values}

RTRecords ==
    { Merge(Merge(Merge([migrationId |-> id, status |-> st], s), c), d) :
        id \in Ids, st \in {"started", "completed"},
        s \in OptionalField("startedAt", {1000}),
        c \in OptionalField("completedAt", {4000}),
        d \in OptionalField("duration", {0, 3000}) }

RTLists == UNION {[1..n -> RTRecords] : n \in 0..RTMaxLen}

RTInit ==
    /\ phase = "new"
    /\ migrations \in RTLists
    /\ isStarting = FALSE
    /\ isPolling = FALSE
    /\ isLoading = FALSE
    /\ storage \in {NoItem, Item(InvalidText)}
    /\ writable = TRUE
    /\ lastSave = "none"
    /\ dirty = Clean
    /\ timer = NoTimer
    /\ starts = NoStarts
    /\ storedMigrations = NoValue
    /\ initActive = <<>>
    /\ initIdx = 0
    /\ reqs = NoReqs
    /\ lastOp = Op("none", "-", "-", "-", NoNotes)
    /\ orphans = {}
    /\ jobs = NoJobs
    /\ early = NoReqs
    /\ notified = {}

RTSave ==
    /\ lastOp.kind = "none"
    /\ storage' = saveMigrationsToStorage(storage, migrations, writable)
    /\ lastSave' = "ok"
    /\ lastOp' = Op("save", "-", "-", "-", NoNotes)
    /\ UNCHANGED <<phase, migrations, isStarting, isPolling, isLoading, writable, orphans, dirty,
                   timer, starts, storedMigrations, initActive, initIdx, reqs>>
    /\ UNCHANGED backend

RTLoad ==
    /\ lastOp.kind = "save"
    /\ storedMigrations' = loadMigrationsFromStorage(storage)
    /\ lastOp' = Op("load", "-", "-", "-", NoNotes)
    /\ UNCHANGED <<phase, migrations, isStarting, isPolling, isLoading, storage, writable, orphans,
                   lastSave, dirty, timer, starts, initActive, initIdx, reqs>>
    /\ UNCHANGED backend

RTNext == RTSave \/ RTLoad

SpecRoundTrip == RTInit /\ [][RTNext]_vars

\* C10: a list that is saved and then loaded comes back equal: the same
\* records in the same order, each with the same fields and values.
C10_RoundTrip ==
    lastOp.kind = "load" => storedMigrations = [kind |-> "list", list |-> migrations]

\* two records with different fields present, one value being 0, came back
C10_Witness ==
    /\ lastOp.kind = "load"
    /\ Len(migrations) = 2
    /\ DOMAIN migrations[1] = {"migrationId", "status", "duration"}
    /\ migrations[1].duration = 0
    /\ DOMAIN migrations[2] = {"migrationId", "status", "startedAt", "completedAt"}
    /\ storedMigrations.list = migrations

----------------------------------------------------------------------------
(* Claims on the panel, continued *)

\* C11: load returns an empty list and raises no error both when the storage
\* key is absent and when the stored content is no record list (corrupted);
\* initialization then goes on with an empty in-memory list and completes:
\* right after the mount the panel is up, its list empty, isLoading false.
C11_LoadTolerant ==
    (/\ lastOp.kind \in {"mount", "crash"}
     /\ (~storage.present \/ storage.text.kind # "array"))
        => /\ storedMigrations = [kind |-> "list", list |-> <<>>]
           /\ phase = "mounted"
           /\ migrations = <<>>
           /\ ~isLoading

\* C14: a successful status update for id X changes only the records whose id
\* is X, each becoming its old fields overwritten by the fields of the update
\* (fields absent from the update kept); every other record is unchanged, the
\* length and order of the list are unchanged, and with no record of id X the
\* list is unchanged.
C14_MergeFrame ==
    [][lastOp'.kind = "statusOk" =>
        LET X == lastOp'.id
            u == StatusBody(X, lastOp'.status)
        IN  /\ Len(migrations') = Len(migrations)
            /\ \A i \in 1..Len(migrations) :
                 IF migrations[i].migrationId = X
                 THEN /\ DOMAIN migrations'[i] = (DOMAIN migrations[i]) \cup (DOMAIN u)
                      /\ \A f \in DOMAIN migrations'[i] :
                           migrations'[i][f] = IF f \in DOMAIN u THEN u[f]
                                               ELSE migrations[i][f]
                 ELSE migrations'[i] = migrations[i]
            /\ (\A i \in 1..Len(migrations) : migrations[i].migrationId # X)
                  => migrations' = migrations]_vars

\* a list of two ids after an update that completed the second: it keeps its
\* startedAt and has the update's completedAt and duration, the first is as
\* it was stored
C14_Witness ==
    /\ lastOp.kind = "statusOk"
    /\ lastOp.id = "m1"
    /\ lastOp.status = "completed"
    /\ Len(migrations) = 2
    /\ migrations[1] = StoredRecord("m2", "failed")
    /\ migrations[2].migrationId = "m1"
    /\ DOMAIN migrations[2] =
          {"migrationId", "status", "startedAt", "completedAt", "duration"}
    /\ migrations[2].startedAt = StoredRecord("m1", "started").startedAt

\* C15: on every timer tick exactly one status fetch is issued for each record
\* that is started in the in-memory list at the time of the tick (not in an
\* older snapshot of the list), whether or not an earlier fetch for the same
\* id is in flight, and none for a record that is not started.
C15_TickReadsCurrentList ==
    [][lastOp'.kind = "tick" => reqs' = AddTickReqs(reqs, ActiveIds(migrations))]_vars

\* C16: records are never removed and never reordered: in every step of the
\* mounted panel the list keeps the same sequence of ids or gains exactly one
\* new record at the head, so its length never decreases.
C16_NoRemovalNoReorder ==
    [][(phase = "mounted" /\ phase' = "mounted") =>
        LET IdsOf(list) == [i \in 1..Len(list) |-> list[i].migrationId]
        IN  \/ IdsOf(migrations') = IdsOf(migrations)
            \/ /\ lastOp'.kind = "startOk"
               /\ Len(migrations') = Len(migrations) + 1
               /\ IdsOf(Tail(migrations')) = IdsOf(migrations)]_vars

\* a stored list of one record has grown by a start, and a status update has
\* then been applied to the list of two
C16_Witness ==
    /\ lastOp.kind = "statusOk"
    /\ Len(storedMigrations.list) = 1
    /\ Len(migrations) = 2
    /\ migrations[2].migrationId = storedMigrations.list[1].migrationId
    /\ migrations[1].migrationId # migrations[2].migrationId
    /\ lastOp.id = migrations[2].migrationId

\* C17: initialization always completes, whatever the stored content and the
\* outcome of each init status check: while the panel is loading after the
\* mount, an init status check is pending, whose resolution (C8) takes the
\* loop to its next check or to setIsLoading(false); the panel is never left
\* loading with nothing pending.
C17_InitNeverStuck ==
    (phase \in {"mounted", "crashed"} /\ isLoading) => InFlight(reqs, "init") = 1

\* C13: the poll timer does not leak: at any time at most one repeating timer
\* is armed (the one of the latest run of the poll effect; none survives the
\* cleanup of its run, which comes when the list changes and at teardown),
\* none is armed once the effects have run on a list with no started record,
\* none is armed after teardown, and no tick issues a status request after
\* teardown.
C13_TimerDoesNotLeak ==
    [][ /\ orphans' = {}
        /\ Cardinality(Armed') <= 1
        /\ (phase' # "mounted" => Armed' = {})
        /\ (phase' = "mounted" /\ dirty' = Clean /\ ~hasActiveMigrations(migrations'))
              => Armed' = {}
        /\ (lastOp'.kind = "tick" => (phase = "mounted" /\ phase' = "mounted"))
        /\ (phase # "mounted" => InFlight(reqs', "tick") <= InFlight(reqs, "tick"))]_vars

\* the timer has ticked, its checks are still in flight, and the panel has just
\* been torn down: no interval is armed
C13_Witness ==
    /\ lastOp.kind = "unmount"
    /\ phase = "unmounted"
    /\ InFlight(reqs, "tick") > 0
    /\ Armed = {}

----------------------------------------------------------------------------
(* Claims on the panel with the forward-only backend (SpecMonotone) *)

\* C18: with a backend whose status of a job only moves forward, the status
\* of a record of the list only moves forward too: a record that is
\* "completed" or "failed" keeps that status in every later step of the
\* mounted panel, whatever the order in which overlapping status responses
\* for its id arrive.  (Records keep their place counted from the end.)
C18_StatusForwardOnly ==
    [][(phase = "mounted" /\ phase' = "mounted" /\ Len(migrations') >= Len(migrations)) =>
        \A i \in 1..Len(migrations) :
            migrations[i].status # "started" =>
                migrations'[i + Len(migrations') - Len(migrations)].status
                    = migrations[i].status]_vars

\* C19: over the life of one mounted panel each job id gets at most one
\* terminal notification (a "completed" success or a "failed" error): a
\* status response that notifies is for an id not notified before.
C19_OneTerminalNotification ==
    [][(lastOp'.kind = "statusOk" /\ lastOp'.success + lastOp'.error > 0)
            => lastOp'.id \notin notified]_vars

\* C20: when the stored list loaded at mount has at most one started record,
\* at most one record of the in-memory list is started, in every state.
C20_AtMostOneActive ==
    (phase = "mounted" /\ Len(ActiveIds(storedMigrations.list)) <= 1)
        => Len(ActiveIds(migrations)) <= 1

\* C12: if every request issued resolves and the backend comes to report a
\* terminal status for every job, then from every state where the list has a
\* started record the panel (which stays mounted) reaches a state where no
\* record is started, the poll timer is stopped and the start action is
\* enabled.
C12_EventuallyIdle ==
    (Mounted /\ hasActiveMigrations(migrations))
        ~> (/\ ~hasActiveMigrations(migrations)
            /\ Armed = {}
            /\ StartEnabled)

\* a record that was loaded as started is finished, the timer that polled it
\* has ticked and is stopped, and the start button is enabled
C12_Witness ==
    /\ phase = "mounted"
    /\ ActiveIds(storedMigrations.list) # <<>>
    /\ InFlight(reqs, "tick") > 0
    /\ migrations # <<>>
    /\ ~hasActiveMigrations(migrations)
    /\ Armed = {}
    /\ StartEnabled

====
